---------------------------- MODULE Spec2Model ----------------------------
(***************************************************************************)
(* A model of diffpy.srfit's BVSRestraint (structure/bvsrestraint.py) and  *)
(* of the staged fit of doc/examples/nppdfsasII.py.                        *)
(*                                                                         *)
(* Python floats are modelled as binary floating-point numbers m * 2^e     *)
(* with a MantBits-bit significand, rounded to nearest, ties to even, plus *)
(* nan and +-inf; the exponent is unbounded.  Python objects carry an      *)
(* identity (id) so that "is" and "==" differ as they do in Python.        *)
(***************************************************************************)
EXTENDS Integers, Sequences, FiniteSets, TLC

\* Significand width of the modelled floating-point format (53 for a double).
MantBits == 4

(***************************************************************************)
(* Python objects                                                          *)
(***************************************************************************)
Obj(t, m, e, id) == [t |-> t, m |-> m, e |-> e, id |-> id]

PyNone == Obj("None", 0, 0, "None")
\* numpy.nan: the one module-level float object that _validate compares with.
NumpyNan == Obj("nan", 0, 0, "numpy.nan")
\* No argument passed: the callee's default applies.
Absent == Obj("absent", 0, 0, "absent")
PyInt(n) == Obj("int", n, 0, "obj")
PyBool(b) == Obj("bool", IF b THEN 1 ELSE 0, 0, "obj")
\* A raised exception, by class name.
Raise(name) == Obj(name, 0, 0, "obj")
Exceptions == {"ZeroDivisionError", "TypeError", "AttributeError"}
IsExc(v) == v.t \in Exceptions

\* a is b
Is(a, b) == a.id # "obj" /\ a.id = b.id

(***************************************************************************)
(* Floating-point arithmetic                                               *)
(***************************************************************************)
RECURSIVE TwoPow(_)
TwoPow(n) == IF n <= 0 THEN 1 ELSE 2 * TwoPow(n - 1)

RECURSIVE BitLen(_)
BitLen(n) == IF n <= 0 THEN 0 ELSE 1 + BitLen(n \div 2)

Abs(n) == IF n < 0 THEN -n ELSE n
Sgn(n) == IF n < 0 THEN -1 ELSE 1

\* The canonical form of m * 2^e: m odd, or 0 * 2^0.
RECURSIVE Norm(_, _)
Norm(m, e) ==
    IF m = 0 THEN Obj("fin", 0, 0, "obj")
    ELSE IF m % 2 = 0 THEN Norm(m \div 2, e + 1)
    ELSE Obj("fin", m, e, "obj")

\* m * 2^e rounded to MantBits significant bits, to nearest, ties to even.
Round(m, e) ==
    LET a == Abs(m)
        s == BitLen(a) - MantBits
    IN  IF s <= 0 THEN Norm(m, e)
        ELSE LET q == a \div TwoPow(s)
                 r == a % TwoPow(s)
                 half == TwoPow(s - 1)
                 up == r > half \/ (r = half /\ q % 2 = 1)
             IN  Norm(Sgn(m) * (IF up THEN q + 1 ELSE q), e + s)

Nan == Obj("nan", 0, 0, "obj")
Inf(sign) == Obj("inf", sign, 0, "obj")
\* The float literal n.0 of a small integer n.
Fl(n) == Round(n, 0)

IsFloat(v) == v.t \in {"fin", "inf", "nan"}
IsNan(v) == v.t = "nan"
IsZero(v) == v.t = "fin" /\ v.m = 0

\* float.__mul__
FMul(a, b) ==
    IF IsExc(a) THEN a
    ELSE IF IsExc(b) THEN b
    ELSE IF ~IsFloat(a) \/ ~IsFloat(b) THEN Raise("TypeError")
    ELSE IF IsNan(a) \/ IsNan(b) THEN Nan
    ELSE IF a.t = "inf" \/ b.t = "inf"
         THEN IF IsZero(a) \/ IsZero(b) THEN Nan
              ELSE Inf(Sgn(a.m) * Sgn(b.m))
    ELSE Round(a.m * b.m, a.e + b.e)

\* float.__truediv__: a zero divisor raises whatever the dividend is.
FDiv(a, b) ==
    IF IsExc(a) THEN a
    ELSE IF IsExc(b) THEN b
    ELSE IF ~IsFloat(a) \/ ~IsFloat(b) THEN Raise("TypeError")
    ELSE IF IsZero(b) THEN Raise("ZeroDivisionError")
    ELSE IF IsNan(a) \/ IsNan(b) THEN Nan
    ELSE IF a.t = "inf"
         THEN IF b.t = "inf" THEN Nan ELSE Inf(Sgn(a.m) * Sgn(b.m))
    ELSE IF b.t = "inf" THEN Fl(0)
    ELSE LET k == 2 * MantBits + 2
             n == Abs(a.m) * TwoPow(k)
             q == n \div Abs(b.m)
             sticky == IF n % Abs(b.m) = 0 THEN 0 ELSE 1
         IN  Round(Sgn(a.m) * Sgn(b.m) * (2 * q + sticky), a.e - b.e - k - 1)

\* x ** 2 for a float x
FSquare(x) == FMul(x, x)

\* a < b for floats; any comparison with nan is false.
FLess(a, b) ==
    /\ IsFloat(a) /\ IsFloat(b) /\ ~IsNan(a) /\ ~IsNan(b)
    /\ IF a.t = "inf" THEN a.m < 0 /\ ~(b.t = "inf" /\ b.m < 0)
       ELSE IF b.t = "inf" THEN b.m > 0
       ELSE LET lo == IF a.e < b.e THEN a.e ELSE b.e
            IN  a.m * TwoPow(a.e - lo) < b.m * TwoPow(b.e - lo)

\* a >= b for floats
FGeq(a, b) ==
    IsFloat(a) /\ IsFloat(b) /\ ~IsNan(a) /\ ~IsNan(b) /\ ~FLess(a, b)

\* float(x)
PyFloat(x) ==
    IF x.t \in {"int", "bool"} THEN Round(x.m, 0)
    ELSE IF IsFloat(x) THEN Obj(x.t, x.m, x.e, "obj")
    ELSE Raise("TypeError")

\* bool(x)
PyTruth(x) ==
    IF x.t \in {"int", "bool", "fin"} THEN x.m # 0
    ELSE IF x.t \in {"None", "absent"} THEN FALSE
    ELSE TRUE

(***************************************************************************)
(* BVSRestraint                                                            *)
(***************************************************************************)
\* Restraint objects that may be constructed.
RIds == {"r1", "r2"}

\* Configurations of the shared structure, as the fit moves its atoms.
StruConfigs == {"relaxed", "strained", "nobonds", "nansingleton", "broken"}

\* The structure objects a restraint may be handed.
StruObjs == {"crystal"}

\* BVSCalculator.eval(stru); bvmsdiff: what the external calculator reports
\* for each configuration of the structure.
BvmsdiffOf(cfg) ==
    CASE cfg = "strained" -> Fl(4)
      [] cfg = "relaxed"  -> Fl(1)
      [] cfg = "nobonds"  -> Nan
      [] cfg = "nansingleton" -> NumpyNan
      [] cfg = "broken"   -> PyNone

VARIABLES
    built,    \* built[r]: BVSRestraint r has been constructed
    sig,      \* r.sig
    scaled,   \* r.scaled
    calc,     \* r._calc.bvmsdiff, the calculator's last result
    struRef,  \* r._stru, the structure object r refers to
    stru,     \* stru[o]: the configuration structure object o is in
    last,     \* the latest penalty() call: its restraint, argument, result
    prev,     \* the penalty() call before it
    vout      \* how the latest operation, if a _validate, ended

restraintVars == <<built, sig, scaled, calc, struRef, stru, last, prev, vout>>

NoCall == [r |-> "none", w |-> Absent, cfg |-> "none", ret |-> PyNone, nevals |-> 0]

RestraintInit ==
    /\ built = [r \in RIds |-> FALSE]
    /\ sig = [r \in RIds |-> PyNone]
    /\ scaled = [r \in RIds |-> FALSE]
    /\ calc = [r \in RIds |-> Fl(0)]
    /\ struRef = [r \in RIds |-> "none"]
    /\ stru \in [StruObjs -> StruConfigs]
    /\ last = NoCall
    /\ prev = NoCall
    /\ vout = "none"

\* BVSRestraint.__init__(stru, sig, scaled)
BVSRestraint_init(r, struArg, sigArg, scaledArg) ==
    /\ ~built[r]
    /\ ~IsExc(PyFloat(sigArg))
    /\ built' = [built EXCEPT ![r] = TRUE]
    /\ struRef' = [struRef EXCEPT ![r] = struArg]
    /\ sig' = [sig EXCEPT ![r] = PyFloat(sigArg)]
    /\ scaled' = [scaled EXCEPT ![r] = PyTruth(scaledArg)]
    /\ vout' = "none"
    /\ UNCHANGED <<calc, stru, last, prev>>

PenaltyValueNoSquare(bvmsdiff, s, sc, wArg) ==
    LET w == IF wArg = Absent THEN Fl(1) ELSE wArg
        p1 == FDiv(bvmsdiff, s)
    IN  IF sc THEN FMul(p1, w) ELSE p1

PenaltyValueAlwaysScaled(bvmsdiff, s, sc, wArg) ==
    LET w == IF wArg = Absent THEN Fl(1) ELSE wArg
    IN  FMul(FDiv(bvmsdiff, FSquare(s)), w)

\* The body of penalty() after the calculator ran: lines 69-77.
PenaltyValue(bvmsdiff, s, sc, wArg) ==
    LET w == IF wArg = Absent THEN Fl(1) ELSE wArg
        p0 == bvmsdiff
        p1 == FDiv(p0, FSquare(s))
    IN  IF sc THEN FMul(p1, w) ELSE p1

PenaltyCallCached(r, wArg) ==
    [calc |-> calc[r],
     rec |-> [r |-> r, w |-> wArg, cfg |-> stru[struRef[r]],
              ret |-> PenaltyValue(calc[r], sig[r], scaled[r], wArg),
              nevals |-> 0]]

\* One penalty(w) call of restraint r: the calculator's state after it and
\* the record of the call.
PenaltyCall(r, wArg) ==
    LET d == BvmsdiffOf(stru[struRef[r]])
    IN  [calc |-> d,
         rec |-> [r |-> r, w |-> wArg, cfg |-> stru[struRef[r]],
                  ret |-> PenaltyValue(d, sig[r], scaled[r], wArg),
                  nevals |-> 1]]

\* BVSRestraint.penalty(w)
penalty(r, wArg) ==
    /\ built[r]
    /\ LET c == PenaltyCall(r, wArg)
       IN  /\ calc' = [calc EXCEPT ![r] = c.calc]
           /\ last' = c.rec
           /\ prev' = last
    /\ vout' = "none"
    /\ UNCHANGED <<built, sig, scaled, struRef, stru>>

\* What _validate does with the value p = self.penalty(): lines 87-90.
ValidateOutcome(p) ==
    IF IsExc(p) THEN p.t
    ELSE IF Is(p, PyNone) \/ Is(p, NumpyNan) THEN "AttributeError"
    ELSE "ok"

\* BVSRestraint._validate()
_validate(r) ==
    /\ built[r]
    /\ LET c == PenaltyCall(r, Absent)
       IN  /\ calc' = [calc EXCEPT ![r] = c.calc]
           /\ last' = c.rec
           /\ prev' = last
           /\ vout' = ValidateOutcome(c.rec.ret)
    /\ UNCHANGED <<built, sig, scaled, struRef, stru>>

\* A generator or the optimizer moves the shared structure to another
\* configuration between two calls.
MoveStructure(o, cfg) ==
    /\ cfg # stru[o]
    /\ stru' = [stru EXCEPT ![o] = cfg]
    /\ vout' = "none"
    /\ UNCHANGED <<built, sig, scaled, calc, struRef, last, prev>>

\* Arguments the callers pass.
SigArgs == {PyInt(1), PyInt(2), PyInt(3), PyInt(0), PyInt(-2), Nan}
ScaledArgs == {PyBool(TRUE), PyBool(FALSE), PyInt(0), PyNone}
WArgs == {Absent, Fl(0), Fl(2), Fl(3), Fl(9)}

(***************************************************************************)
(* FitRecipe: the variable registry, the constraint graph and the weights, *)
(* as doc/examples/nppdfsasII.py uses them.                                *)
(***************************************************************************)
\* The parameters of the example, by the name the recipe knows them under,
\* and two scatterers of the phase.
Scatterers == {"Pb1", "Pb2"}
ScattererBiso(sc) == IF sc = "Pb1" THEN "Pb1.Biso" ELSE "Pb2.Biso"
Params == {"a", "Biso", "scale", "delta2", "iqscale", "radius_a", "radius_b",
           "Pb1.Biso", "Pb2.Biso", "P.iq", "sas.ycpar"}
Contribs == {"pdf", "sas"}
NoName == "None"
NoValue == "None"

\* The name a parameter object registers under when addVar gets no name.
OwnName(par) ==
    CASE par = "lattice.a" -> "a"
      [] par \in {"G.scale", "generator.scale"} -> "scale"
      [] par = "G.delta2" -> "delta2"
      [] par = "generator.radius_a" -> "radius_a"
      [] par = "generator.radius_b" -> "radius_b"
      [] OTHER -> par

VARIABLES
    freeVars,   \* the names of the recipe's free variables
    fixedVars,  \* the names of the recipe's fixed variables
    con,        \* con[p]: the parameter p is constrained to, or NoName
    value,      \* value[p]: the parameter's current value
    weight,     \* weight[c]: the weight of contribution c
    lastCall    \* the latest call on the recipe and how it ended

recipeVars == <<freeVars, fixedVars, con, value, weight, lastCall>>
registry == <<freeVars, fixedVars, con, value, weight>>

Call(op, a, b, err) == [op |-> op, a |-> a, b |-> b, err |-> err]

RecipeInit ==
    /\ freeVars = {}
    /\ fixedVars = {}
    /\ con = [p \in Params |-> NoName]
    /\ value = [p \in Params |-> "init"]
    /\ weight = [c \in Contribs |-> 1]
    /\ lastCall = Call("FitRecipe", NoName, NoName, "ok")

Registered == freeVars \cup fixedVars
Constrained == {p \in Params : con[p] # NoName}

\* The parameters p depends on, directly or transitively, in graph g.
RECURSIVE DependsOn(_, _, _)
DependsOn(g, p, n) ==
    IF n = 0 \/ g[p] = NoName THEN {}
    ELSE {g[p]} \cup DependsOn(g, g[p], n - 1)
Sources(g, p) == DependsOn(g, p, Cardinality(Params))
Acyclic(g) == \A p \in Params : p \notin Sources(g, p)

SetValue(p, v) == IF v = NoValue THEN value ELSE [value EXCEPT ![p] = v]

\* A call that fails raises and leaves the recipe as it was.
Fails(op, a, b, err) ==
    /\ lastCall' = Call(op, a, b, err)
    /\ UNCHANGED registry

\* recipe.addVar(par, value, name)
addVar(par, v, name) ==
    LET n == IF name = NoName THEN OwnName(par) ELSE name
    IN  IF n \in Registered \/ con[n] # NoName
        THEN Fails("addVar", n, v, "ValueError")
        ELSE /\ freeVars' = freeVars \cup {n}
             /\ value' = SetValue(n, v)
             /\ lastCall' = Call("addVar", n, v, "ok")
             /\ UNCHANGED <<fixedVars, con, weight>>

\* recipe.newVar(name, value)
newVar(name, v) ==
    IF name \in Registered \/ con[name] # NoName
    THEN Fails("newVar", name, v, "ValueError")
    ELSE /\ freeVars' = freeVars \cup {name}
         /\ value' = SetValue(name, v)
         /\ lastCall' = Call("newVar", name, v, "ok")
         /\ UNCHANGED <<fixedVars, con, weight>>

ClosesCycleDirectOnly(target, source) ==
    source = target \/ con[source] = target

\* constrain(A, B) would close a cycle: B is A or already depends on A.
ClosesCycle(target, source) ==
    source = target \/ target \in Sources(con, source)

\* recipe.constrain(par, con)
constrain(target, source) ==
    IF target \in Registered \/ ClosesCycle(target, source)
    THEN Fails("constrain", target, source, "ValueError")
    ELSE /\ con' = [con EXCEPT ![target] = source]
         /\ lastCall' = Call("constrain", target, source, "ok")
         /\ UNCHANGED <<freeVars, fixedVars, value, weight>>

fixAllParameters ==
    /\ fixedVars' = fixedVars \cup freeVars \cup Constrained
    /\ freeVars' = {}
    /\ lastCall' = Call("fixAll", NoName, NoName, "ok")
    /\ UNCHANGED <<con, value, weight>>

\* recipe.fixAll()
fixAll ==
    /\ fixedVars' = fixedVars \cup freeVars
    /\ freeVars' = {}
    /\ lastCall' = Call("fixAll", NoName, NoName, "ok")
    /\ UNCHANGED <<con, value, weight>>

\* recipe.freeAll()
freeAll ==
    /\ freeVars' = freeVars \cup fixedVars
    /\ fixedVars' = {}
    /\ lastCall' = Call("freeAll", NoName, NoName, "ok")
    /\ UNCHANGED <<con, value, weight>>

\* recipe.freeVar(name, value)
freeVar(name, v) ==
    IF name \notin Registered
    THEN Fails("freeVar", name, v, "ValueError")
    ELSE /\ freeVars' = freeVars \cup {name}
         /\ fixedVars' = fixedVars \ {name}
         /\ value' = SetValue(name, v)
         /\ lastCall' = Call("freeVar", name, v, "ok")
         /\ UNCHANGED <<con, weight>>

\* recipe.fixVar(name)
fixVar(name) ==
    IF name \notin Registered
    THEN Fails("fixVar", name, NoValue, "ValueError")
    ELSE /\ fixedVars' = fixedVars \cup {name}
         /\ freeVars' = freeVars \ {name}
         /\ lastCall' = Call("fixVar", name, NoValue, "ok")
         /\ UNCHANGED <<con, value, weight>>

\* recipe.setWeight(contribution, w)
setWeight(c, w) ==
    /\ weight' = [weight EXCEPT ![c] = w]
    /\ lastCall' = Call("setWeight", c, NoValue, "ok")
    /\ UNCHANGED <<freeVars, fixedVars, con, value>>

\* The value every constrained parameter takes once the constraints have
\* been propagated over values val: that of the unconstrained parameter its
\* chain of constraints ends in.
RECURSIVE Root(_, _)
Root(p, n) == IF n = 0 \/ con[p] = NoName THEN p ELSE Root(con[p], n - 1)
Propagated(val) == [p \in Params |-> val[Root(p, Cardinality(Params))]]

(***************************************************************************)
(* doc/examples/nppdfsasII.py: makeRecipe and fitRecipe                    *)
(***************************************************************************)
VARIABLES
    line,     \* the next call of the example to run
    optLog    \* what each scipyOptimize(recipe) invocation found on entry

fitVars == <<line, optLog>>

Stmt(op, a, b, c) == [op |-> op, a |-> a, b |-> b, c |-> c, w |-> 1]
\* recipe.setWeight(recipe.<c>, w)
SetWeightStmt(c, w) == [op |-> "setWeight", a |-> c, b |-> NoValue, c |-> NoName, w |-> w]

\* makeRecipe: the calls that register constraints and variables.
MakeRecipeCalls ==
    << Stmt("constrain", "P.iq", "sas.ycpar", NoName),
       Stmt("addVar", "lattice.a", NoValue, NoName),
       Stmt("newVar", "Biso", "0.5", NoName),
       Stmt("constrain", ScattererBiso("Pb1"), "Biso", NoName),
       Stmt("constrain", ScattererBiso("Pb2"), "Biso", NoName),
       Stmt("addVar", "G.scale", "1", NoName),
       Stmt("addVar", "G.delta2", "0", NoName),
       Stmt("addVar", "generator.scale", "1", "iqscale"),
       Stmt("addVar", "generator.radius_a", "10", NoName),
       Stmt("addVar", "generator.radius_b", "10", NoName) >>

FitRecipeCallsSasLeftOn ==
    << SetWeightStmt("pdf", 0),
       Stmt("fixAll", NoName, NoValue, NoName),
       Stmt("freeVar", "iqscale", "1e8", NoName),
       Stmt("freeVar", "radius_a", NoValue, NoName),
       Stmt("freeVar", "radius_b", NoValue, NoName),
       Stmt("scipyOptimize", NoName, NoValue, NoName),
       SetWeightStmt("pdf", 1),
       Stmt("fixAll", NoName, NoValue, NoName),
       Stmt("freeVar", "a", NoValue, NoName),
       Stmt("freeVar", "Biso", NoValue, NoName),
       Stmt("freeVar", "scale", NoValue, NoName),
       Stmt("freeVar", "delta2", NoValue, NoName),
       Stmt("scipyOptimize", NoName, NoValue, NoName),
       SetWeightStmt("pdf", 1),
       SetWeightStmt("sas", 1),
       Stmt("freeAll", NoName, NoValue, NoName),
       Stmt("scipyOptimize", NoName, NoValue, NoName) >>

\* fitRecipe: the three stages.
FitRecipeCalls ==
    << SetWeightStmt("pdf", 0),
       Stmt("fixAll", NoName, NoValue, NoName),
       Stmt("freeVar", "iqscale", "1e8", NoName),
       Stmt("freeVar", "radius_a", NoValue, NoName),
       Stmt("freeVar", "radius_b", NoValue, NoName),
       Stmt("scipyOptimize", NoName, NoValue, NoName),
       SetWeightStmt("pdf", 1),
       SetWeightStmt("sas", 0),
       Stmt("fixAll", NoName, NoValue, NoName),
       Stmt("freeVar", "a", NoValue, NoName),
       Stmt("freeVar", "Biso", NoValue, NoName),
       Stmt("freeVar", "scale", NoValue, NoName),
       Stmt("freeVar", "delta2", NoValue, NoName),
       Stmt("scipyOptimize", NoName, NoValue, NoName),
       SetWeightStmt("pdf", 1),
       SetWeightStmt("sas", 1),
       Stmt("freeAll", NoName, NoValue, NoName),
       Stmt("scipyOptimize", NoName, NoValue, NoName) >>

\* __main__: recipe = makeRecipe(...); fitRecipe(recipe)
Example == MakeRecipeCalls \o FitRecipeCalls

FitInit == line = 1 /\ optLog = << >>

\* scipyOptimize(recipe): the optimizer moves the free variables, each to a
\* refined value or not at all, and the recipe's residual() propagates the
\* constraints.
scipyOptimize ==
    /\ optLog' = Append(optLog, [weight |-> weight, free |-> freeVars,
                                 fixed |-> fixedVars, value |-> value])
    /\ \E moved \in SUBSET freeVars :
          value' = Propagated([p \in Params |->
                                  IF p \in moved THEN "refined" ELSE value[p]])
    /\ lastCall' = Call("scipyOptimize", NoName, NoValue, "ok")
    /\ UNCHANGED <<freeVars, fixedVars, con, weight>>

\* The example is about to run call st; a call that raises ends the run.
AtLine(st) == line <= Len(Example) /\ st = Example[line]
Advance == line' = IF lastCall'.err = "ok" THEN line + 1 ELSE Len(Example) + 2
Statements == {Example[i] : i \in 1..Len(Example)}

(***************************************************************************)
(* FitRecipe.residual(): one evaluation of the aggregate residual          *)
(***************************************************************************)
VARIABLES
    phase,       \* where the evaluation in progress is
    recomputed,  \* recomputed[p]: times p was recomputed in this evaluation
    evaluated,   \* the contributions whose residual() ran in this evaluation
    penalized    \* the restraints whose penalty() ran in this evaluation

evalVars == <<phase, recomputed, evaluated, penalized>>

EvalInit ==
    /\ phase = "idle"
    /\ recomputed = [p \in Params |-> 0]
    /\ evaluated = {}
    /\ penalized = {}

\* The scatterers' Biso live in the structure: its configuration follows them.
StruConfigOf(val) ==
    IF val["Pb1.Biso"] # val["Pb2.Biso"] THEN "nobonds"
    ELSE IF val["Pb1.Biso"] = "0.7" THEN "strained"
    ELSE "relaxed"

\* The optimizer calls residual() with a new vector of free values.
residualBegin(vec) ==
    /\ phase = "idle"
    /\ value' = [p \in Params |-> IF p \in freeVars THEN vec[p] ELSE value[p]]
    /\ phase' = "propagate"
    /\ recomputed' = [p \in Params |-> 0]
    /\ evaluated' = {}
    /\ penalized' = {}
    /\ UNCHANGED <<freeVars, fixedVars, con, weight, lastCall>>
    /\ UNCHANGED restraintVars

recomputeAnyOrder(p) ==
    /\ phase = "propagate"
    /\ con[p] # NoName /\ recomputed[p] = 0
    /\ value' = [value EXCEPT ![p] = value[con[p]]]
    /\ recomputed' = [recomputed EXCEPT ![p] = recomputed[p] + 1]
    /\ stru' = [o \in StruObjs |-> StruConfigOf(value')]
    /\ UNCHANGED <<freeVars, fixedVars, con, weight, lastCall>>
    /\ UNCHANGED <<built, sig, scaled, calc, struRef, last, prev, vout>>
    /\ UNCHANGED <<phase, evaluated, penalized>>

\* Constraint propagation recomputes p from its source, sources first.
recompute(p) ==
    /\ phase = "propagate"
    /\ con[p] # NoName /\ recomputed[p] = 0
    /\ con[con[p]] # NoName => recomputed[con[p]] > 0
    /\ value' = [value EXCEPT ![p] = value[con[p]]]
    /\ recomputed' = [recomputed EXCEPT ![p] = recomputed[p] + 1]
    /\ stru' = [o \in StruObjs |-> StruConfigOf(value')]
    /\ UNCHANGED <<freeVars, fixedVars, con, weight, lastCall>>
    /\ UNCHANGED <<built, sig, scaled, calc, struRef, last, prev, vout>>
    /\ UNCHANGED <<phase, evaluated, penalized>>

\* contribution.residual(): the generators run on the propagated values.
contributionResidual(c) ==
    /\ phase \in {"propagate", "contributions"}
    /\ \A p \in Constrained : recomputed[p] > 0
    /\ c \notin evaluated
    /\ evaluated' = evaluated \cup {c}
    /\ phase' = "contributions"
    /\ UNCHANGED <<recipeVars, restraintVars, recomputed, penalized>>

\* restraint.penalty(w), w the point-average chi^2 of the contributions.
restraintPenalty(r, wArg) ==
    /\ phase \in {"contributions", "restraints"}
    /\ evaluated = Contribs
    /\ built[r] /\ r \notin penalized
    /\ LET c == PenaltyCall(r, wArg)
       IN  /\ calc' = [calc EXCEPT ![r] = c.calc]
           /\ last' = c.rec
           /\ prev' = last
    /\ penalized' = penalized \cup {r}
    /\ phase' = "restraints"
    /\ UNCHANGED <<built, sig, scaled, struRef, stru, vout>>
    /\ UNCHANGED <<recipeVars, recomputed, evaluated>>

\* residual() returns the concatenated vector.
residualEnd ==
    /\ phase = "restraints"
    /\ penalized = {r \in RIds : built[r]}
    /\ phase' = "idle"
    /\ UNCHANGED <<recipeVars, restraintVars, recomputed, evaluated, penalized>>

vars == <<restraintVars, recipeVars, fitVars, evalVars>>

Init == RestraintInit /\ RecipeInit /\ FitInit /\ EvalInit

\* What the calls on a restraint, on the registry and of the example leave
\* alone.
offRestraint == <<recipeVars, fitVars, evalVars>>
offRegistry == <<restraintVars, fitVars, evalVars>>
offExample == <<restraintVars, evalVars>>

Next ==
    \/ \E o \in StruObjs, s \in SigArgs, sc \in ScaledArgs :
          BVSRestraint_init("r1", o, s, sc) /\ UNCHANGED offRestraint
    \/ \E w \in WArgs : penalty("r1", w) /\ UNCHANGED offRestraint
    \/ _validate("r1") /\ UNCHANGED offRestraint
    \/ \E o \in StruObjs, cfg \in StruConfigs :
          MoveStructure(o, cfg) /\ UNCHANGED offRestraint

Spec == Init /\ [][Next]_vars

\* Any sequence of registry calls on a recipe with these parameters.
RegistryPars == {"lattice.a", "Pb1.Biso", "Pb2.Biso"}
RegistryNames == {"a", "Biso", "Pb1.Biso", "Pb2.Biso"}
RegistryValues == {NoValue, "0.5"}

RegistryInit == Init /\ stru = [o \in StruObjs |-> "relaxed"]

RegistryNext ==
    \/ \E p \in RegistryPars, v \in RegistryValues :
          addVar(p, v, NoName) /\ UNCHANGED offRegistry
    \/ \E v \in RegistryValues \ {NoValue} :
          newVar("Biso", v) /\ UNCHANGED offRegistry
    \/ \E t, u \in RegistryNames : constrain(t, u) /\ UNCHANGED offRegistry
    \/ fixAll /\ UNCHANGED offRegistry
    \/ freeAll /\ UNCHANGED offRegistry
    \/ \E n \in RegistryNames, v \in RegistryValues :
          freeVar(n, v) /\ UNCHANGED offRegistry
    \/ \E n \in RegistryNames : fixVar(n) /\ UNCHANGED offRegistry

SpecRegistry == RegistryInit /\ [][RegistryNext]_vars

\* The example, run from its first call to the return of fitRecipe.
FitNext ==
    \/ \E st \in Statements :
          /\ AtLine(st) /\ st.op = "constrain" /\ constrain(st.a, st.b)
          /\ Advance /\ UNCHANGED optLog /\ UNCHANGED offExample
    \/ \E st \in Statements :
          /\ AtLine(st) /\ st.op = "addVar" /\ addVar(st.a, st.b, st.c)
          /\ Advance /\ UNCHANGED optLog /\ UNCHANGED offExample
    \/ \E st \in Statements :
          /\ AtLine(st) /\ st.op = "newVar" /\ newVar(st.a, st.b)
          /\ Advance /\ UNCHANGED optLog /\ UNCHANGED offExample
    \/ \E st \in Statements :
          /\ AtLine(st) /\ st.op = "setWeight" /\ setWeight(st.a, st.w)
          /\ Advance /\ UNCHANGED optLog /\ UNCHANGED offExample
    \/ \E st \in Statements :
          /\ AtLine(st) /\ st.op = "fixAll" /\ fixAll
          /\ Advance /\ UNCHANGED optLog /\ UNCHANGED offExample
    \/ \E st \in Statements :
          /\ AtLine(st) /\ st.op = "freeAll" /\ freeAll
          /\ Advance /\ UNCHANGED optLog /\ UNCHANGED offExample
    \/ \E st \in Statements :
          /\ AtLine(st) /\ st.op = "freeVar" /\ freeVar(st.a, st.b)
          /\ Advance /\ UNCHANGED optLog /\ UNCHANGED offExample
    \/ \E st \in Statements :
          /\ AtLine(st) /\ st.op = "scipyOptimize" /\ scipyOptimize
          /\ Advance /\ UNCHANGED offExample

SpecFit == RegistryInit /\ [][FitNext]_vars

\* A recipe with two restraints on the structure and the scatterers' Biso
\* constrained, evaluated again and again by the optimizer.
EvalValues == {"0.5", "0.7"}
EvalWArgs == {Fl(2), Fl(3)}
EvalGraphs ==
    {g \in {[p \in Params |-> IF p = "Pb1.Biso" THEN s1
                              ELSE IF p = "Pb2.Biso" THEN s2 ELSE NoName] :
              s1 \in {"Biso", "a", "Pb2.Biso"}, s2 \in {"Biso", "a", "Pb1.Biso"}} :
        Acyclic(g)}

RecipeBuilt ==
    /\ built = [r \in RIds |-> TRUE]
    /\ sig = [r \in RIds |-> IF r = "r1" THEN Fl(1) ELSE Fl(2)]
    /\ scaled = [r \in RIds |-> r = "r2"]
    /\ calc = [r \in RIds |-> Fl(0)]
    /\ struRef = [r \in RIds |-> "crystal"]
    /\ stru = [o \in StruObjs |-> "relaxed"]
    /\ last = NoCall /\ prev = NoCall /\ vout = "none"
    /\ freeVars = {"a", "Biso"}
    /\ fixedVars = {}
    /\ con \in EvalGraphs
    /\ value = [p \in Params |-> "0.5"]
    /\ weight = [c \in Contribs |-> 1]
    /\ lastCall = Call("constrain", "Pb2.Biso", con["Pb2.Biso"], "ok")
    /\ FitInit /\ EvalInit

EvalNext ==
    \/ \E vec \in [freeVars -> EvalValues] :
          residualBegin(vec) /\ UNCHANGED fitVars
    \/ \E p \in Params : recompute(p) /\ UNCHANGED fitVars
    \/ \E c \in Contribs : contributionResidual(c) /\ UNCHANGED fitVars
    \/ \E r \in RIds, w \in EvalWArgs :
          restraintPenalty(r, w) /\ UNCHANGED fitVars
    \/ residualEnd /\ UNCHANGED fitVars

SpecEval == RecipeBuilt /\ [][EvalNext]_vars

\* Two restraints on the same structure, built with different sig.
PairSigArgs == {PyInt(1), PyInt(2), PyInt(-2)}
PairWArgs == {Absent, Fl(2)}
PairConfigs == {"relaxed", "strained"}

PairInit == Init /\ stru \in [StruObjs -> PairConfigs]

PairNext ==
    \/ \E r \in RIds, o \in StruObjs, s \in PairSigArgs, sc \in ScaledArgs :
          BVSRestraint_init(r, o, s, sc) /\ UNCHANGED offRestraint
    \/ \E r \in RIds, w \in PairWArgs :
          penalty(r, w) /\ UNCHANGED offRestraint
    \/ \E o \in StruObjs, cfg \in PairConfigs :
          MoveStructure(o, cfg) /\ UNCHANGED offRestraint

SpecPair == PairInit /\ [][PairNext]_vars

(***************************************************************************)
(* Properties of BVSRestraint                                              *)
(***************************************************************************)
\* The value of the argument w inside penalty().
WOf(call) == IF call.w = Absent THEN Fl(1) ELSE call.w

Called == last.r # "none"
\* The latest two penalty() calls were made by one restraint on one
\* configuration of the structure.
SameRestraintTwice ==
    /\ prev.r # "none" /\ prev.r = last.r /\ prev.cfg = last.cfg

\* C1: penalty(w) returns d / sig^2 when scaled is false and (d / sig^2) * w
\* when scaled is true, w being 1.0 when the caller passes none; d = 4 gives
\* 4 for sig = 1, 1 for sig = 2, and 2 for sig = 2, scaled, w = 2.
PenaltyIsScaledQuotient ==
    Called =>
        LET d == BvmsdiffOf(last.cfg)
            s == sig[last.r]
            q == FDiv(d, FMul(s, s))
        IN  /\ ~scaled[last.r] => last.ret = q
            /\ scaled[last.r] /\ last.w # Absent => last.ret = FMul(q, last.w)
            /\ scaled[last.r] /\ last.w = Absent => last.ret = FMul(q, Fl(1))
            /\ d = Fl(4) /\ ~scaled[last.r] /\ s = Fl(1) => last.ret = Fl(4)
            /\ d = Fl(4) /\ ~scaled[last.r] /\ s = Fl(2) => last.ret = Fl(1)
            /\ d = Fl(4) /\ scaled[last.r] /\ s = Fl(2) /\ last.w = Fl(2)
                  => last.ret = Fl(2)

PenaltyScaledExample ==
    /\ Called /\ scaled[last.r] /\ sig[last.r] = Fl(2)
    /\ last.cfg = "strained" /\ last.w = Fl(2) /\ last.ret = Fl(2)

\* C2: _validate raises a configuration error whenever penalty() with the
\* default w yields nan or None, and raises nothing when it yields a number.
ValidateRaisesOnUndefined ==
    vout # "none" =>
        /\ (IsNan(last.ret) \/ last.ret.t = "None") => vout = "AttributeError"
        /\ last.ret.t \in {"fin", "inf"} => vout = "ok"

\* C3: a restraint is never constructed with sig <= 0, so sig > 0 holds of
\* every constructed restraint and no penalty() call divides by zero.
SigAlwaysPositive ==
    /\ \A r \in RIds : built[r] => FLess(Fl(0), sig[r])
    /\ last.ret.t # "ZeroDivisionError"

\* C4: of two restraints built with sig1 < sig2, called with the same w on
\* the same raw divergence, the first one's penalty is >= the second's.
PenaltyMonotoneInSig ==
    /\ prev.r # "none" /\ prev.r # last.r /\ prev.cfg = last.cfg
    /\ prev.w = last.w /\ scaled[prev.r] = scaled[last.r]
    /\ FLess(sig[prev.r], sig[last.r])
    => FGeq(prev.ret, last.ret)

\* C5 as stated: with scaled false penalty(w1) = penalty(w2); with scaled
\* true penalty(k*w) = k * penalty(w) for all k and w, and penalty(0) = 0.
\* Stated here for the calls that return a finite number only.
KArgs == {Fl(0), Fl(1), Fl(2), Fl(3)}
PenaltyReevaluates ==
    /\ [](Called =>
            /\ last.nevals = 1
            /\ calc[last.r] = BvmsdiffOf(last.cfg)
            /\ last.ret = PenaltyValue(BvmsdiffOf(last.cfg), sig[last.r],
                                       scaled[last.r], last.w))
    /\ [][(last' # last \/ prev' # prev \/ calc' # calc)
            => /\ UNCHANGED <<built, sig, scaled, struRef, stru>>
               /\ last'.cfg = stru[struRef[last'.r]]]_vars

PenaltyAfterMove ==
    /\ prev.r # "none" /\ prev.r = last.r /\ prev.cfg # last.cfg
    /\ prev.ret.t = "fin" /\ last.ret.t = "fin" /\ prev.ret # last.ret
    /\ stru[struRef[last.r]] = last.cfg

(***************************************************************************)
(* Properties of the recipe                                                *)
(***************************************************************************)
Known == freeVars \cup fixedVars \cup Constrained
StatusesOf(p) ==
    {st \in {"free", "fixed", "constrained"} :
        \/ st = "free" /\ p \in freeVars
        \/ st = "fixed" /\ p \in fixedVars
        \/ st = "constrained" /\ con[p] # NoName}

CycleRejected ==
    /\ [](Acyclic(con))
    /\ [][(/\ lastCall'.op = "constrain"
           /\ lastCall'.a \in Sources(con, lastCall'.b))
          => /\ lastCall'.err # "ok"
             /\ UNCHANGED <<freeVars, fixedVars, con>>]_vars

CycleAttempted ==
    /\ lastCall.op = "constrain" /\ lastCall.err = "ValueError"
    /\ lastCall.a \notin Registered
    /\ lastCall.a # lastCall.b
    /\ lastCall.a \in Sources(con, lastCall.b)
    /\ con[lastCall.b] # lastCall.a

(***************************************************************************)
(* Properties of the example's staged fit                                  *)
(***************************************************************************)
SasVars == {"iqscale", "radius_a", "radius_b"}
PdfVars == {"a", "Biso", "scale", "delta2"}
Returned == line > Len(Example)

\* C10: the first scipyOptimize runs with weights pdf = 0, sas = 1, exactly
\* iqscale, radius_a and radius_b free and iqscale set to 1e8; the second
\* with pdf = 1, sas = 0 and exactly a, Biso, scale and delta2 free; the
\* third with both weights 1 and all seven variables free; every invocation
\* has a nonzero weight and a free variable, and when fitRecipe returns no
\* variable is fixed and no weight is 0.
StagedFit ==
    /\ Len(optLog) >= 1 =>
          /\ optLog[1].weight = [c \in Contribs |-> IF c = "pdf" THEN 0 ELSE 1]
          /\ optLog[1].free = SasVars
          /\ optLog[1].value["iqscale"] = "1e8"
    /\ Len(optLog) >= 2 =>
          /\ optLog[2].weight = [c \in Contribs |-> IF c = "pdf" THEN 1 ELSE 0]
          /\ optLog[2].free = PdfVars
    /\ Len(optLog) >= 3 =>
          /\ optLog[3].weight = [c \in Contribs |-> 1]
          /\ optLog[3].free = SasVars \cup PdfVars
          /\ optLog[3].fixed = {}
    /\ \A i \in 1..Len(optLog) :
          /\ \E c \in Contribs : optLog[i].weight[c] # 0
          /\ optLog[i].free # {}
          /\ optLog[i].free \cup optLog[i].fixed = SasVars \cup PdfVars
    /\ Returned =>
          /\ Len(optLog) = 3
          /\ fixedVars = {}
          /\ \A c \in Contribs : weight[c] # 0

FitReturned ==
    /\ Returned /\ Len(optLog) = 3
    /\ freeVars = SasVars \cup PdfVars
    /\ value["Pb1.Biso"] = "refined"

=============================================================================
